---- MODULE Spec2Model ----
(***************************************************************************)
(* A model of src/fs.c, the vsfs file-system simulator.                    *)
(*                                                                         *)
(* The disk is one calloc'ed region of DISK_SIZE_IN_BLOCKS blocks.  The    *)
(* model keeps the superblock as a record, the two bitmaps as the sets of  *)
(* their set bits (bit 64*w+b is bit b of word w), and the inode table     *)
(* and data region as bytes: mem maps a byte offset from the start of the  *)
(* disk to the byte stored there; an offset outside DOMAIN mem holds 0,    *)
(* as after calloc.  Offsets at and past DiskBytes are memory that is not  *)
(* part of the disk; an access to them is undefined behaviour, modelled    *)
(* as a choice between a fault (pc = "segv") and the access going          *)
(* through to zero-initialised memory.                                     *)
(*                                                                         *)
(* Strings are sequences of character codes without the NUL.               *)
(***************************************************************************)
EXTENDS Integers, Sequences, FiniteSets, TLC

VARIABLES pc, shift, sb, inode_bitmap, data_bitmap, mem, out, created, last, calls, tail

vars == <<pc, shift, sb, inode_bitmap, data_bitmap, mem, out, created, last, calls, tail>>

disk == <<sb, inode_bitmap, data_bitmap, mem>>

----------------------------------------------------------------------------
(* Program constants. *)

BLOCK_SIZE_IN_BYTES == 4096
DISK_SIZE_IN_BLOCKS == 64
DATA_REGION_IN_BLOCKS == 56
INODE_TABLE_IN_BLOCKS == 5
INODE_SIZE_IN_BYTES == 256
MAX_DIRECTORY_NAME_LENGTH == 30
CHAR_BIT == 8
BITS_PER_WORD == 64
\* width of int, the type of the constant 1 in (1 << BIT_OFFSET(n))
INT_BITS == 32

inode_type_file == 0
inode_type_directory == 1

\* struct direntry { int inum; char name[31]; }: 35 bytes, padded to the
\* alignment of int.
DIRENTRY_NAME_OFFSET == 4
DIRENTRY_SIZE == 36
\* struct inode { int type; int size; void *data_block_pointers[12]; }
INODE_TYPE_OFFSET == 0
INODE_BLOCK_OFFSET == 8

\* The address calloc returned for the disk, 0x7f3a5c021010, as its upper and
\* lower 32 bits.
DiskBaseHigh == 32570
DiskBaseLow == 1543639056

DiskBytes == DISK_SIZE_IN_BLOCKS * BLOCK_SIZE_IN_BYTES
BitmapBits == BLOCK_SIZE_IN_BYTES * CHAR_BIT

\* Character codes of '/' and '.'.
SLASH == 47
DOT == 46

NULL == 0

----------------------------------------------------------------------------
(* Bounds of the model. *)

\* create_file/create_dir calls of a run of Spec
MaxCalls == 3
\* filler creations of a run of SpecFill, and the calls that follow them
MaxFill == 114
MaxTail == 2

----------------------------------------------------------------------------
(* Bitmaps. *)

\* The outcomes of (1 << s) for int 1 and s >= 31, which C leaves undefined:
\* "wrap32": the shift count is taken modulo 32 and 1 << 31 is INT_MIN;
\* "zero":   a count of 32 or more gives 0 and 1 << 31 is INT_MIN;
\* "wide":   the shift is done in 64 bits.
ShiftOutcomes == {"wrap32", "zero", "wide"}

\* The bits of the word_t that (1 << s) converts to.
RECURSIVE MaskBits(_, _)
MaskBits(sh, s) ==
  IF sh = "wide" THEN {s}
  ELSE IF s < INT_BITS - 1 THEN {s}
  ELSE IF s = INT_BITS - 1 THEN (INT_BITS - 1)..(BITS_PER_WORD - 1)
  ELSE IF sh = "zero" THEN {}
  ELSE MaskBits(sh, s - INT_BITS)

WORD_OFFSET(b) == b \div BITS_PER_WORD
BIT_OFFSET(b) == b % BITS_PER_WORD

WordMask(sh, n) == {WORD_OFFSET(n) * BITS_PER_WORD + b : b \in MaskBits(sh, BIT_OFFSET(n))}

set_bit(sh, words, n) == words \cup WordMask(sh, n)

get_bit(sh, words, n) == (words \cap WordMask(sh, n)) # {}

\* The first i, counting up from 0, that get_bit finds clear.
first_clear_bit(sh, words) ==
  IF \E i \in 0..(BitmapBits - 1) : ~get_bit(sh, words, i)
    THEN CHOOSE i \in 0..(BitmapBits - 1) :
           /\ ~get_bit(sh, words, i)
           /\ \A j \in 0..(i - 1) : get_bit(sh, words, j)
    ELSE -1

----------------------------------------------------------------------------
(* Bytes of the disk. *)

Rd(m, a) == IF a \in DOMAIN m THEN m[a] ELSE 0

\* Store the bytes bs at offsets a, a+1, ...
WriteBytes(m, a, bs) ==
  LET written == a..(a + Len(bs) - 1)
      nz == {x \in written : bs[x - a + 1] # 0}
  IN [x \in (DOMAIN m \ written) \cup nz |->
        IF x \in written THEN bs[x - a + 1] ELSE m[x]]

\* A little-endian int; the only negative value the program stores is -1.
IntBytes(v) ==
  IF v < 0 THEN <<255, 255, 255, 255>>
  ELSE <<v % 256, (v \div 256) % 256, (v \div 65536) % 256, (v \div 16777216) % 256>>

WriteInt(m, a, v) == WriteBytes(m, a, IntBytes(v))

\* The int at offset a; -1 stands for every value that has its top bit set.
ReadInt(m, a) ==
  IF Rd(m, a + 3) >= 128 THEN -1
  ELSE Rd(m, a) + 256 * Rd(m, a + 1) + 65536 * Rd(m, a + 2) + 16777216 * Rd(m, a + 3)

\* A pointer into the disk is stored as the 8 bytes of the disk's address
\* plus the offset.
WritePtr(m, a, off) ==
  WriteBytes(m, a, IntBytes(DiskBaseLow + off) \o IntBytes(DiskBaseHigh))

\* The offset a stored pointer points at; WildOff for an address that is
\* nowhere near the disk.
WildOff == -1

ReadPtr(m, a) ==
  IF ReadInt(m, a + 4) # DiskBaseHigh THEN WildOff
  ELSE IF ReadInt(m, a) < DiskBaseLow THEN WildOff
  ELSE ReadInt(m, a) - DiskBaseLow

\* A loop that steps over non-zero bytes stops within Stored(m) steps: m
\* holds no more non-zero bytes than that.
Stored(m) == Cardinality(DOMAIN m)

\* strlen of the C string at offset a, and the string.
strlen(m, a) ==
  CHOOSE n \in 0..Stored(m) :
    /\ Rd(m, a + n) = 0
    /\ \A k \in 0..(n - 1) : Rd(m, a + k) # 0

CString(m, a) == [i \in 1..strlen(m, a) |-> Rd(m, a + i - 1)]

\* strncpy(dst, src, n): the first n characters of src, padded with NULs to n
\* bytes; no NUL is stored when src has n characters or more.
StrncpyBytes(src, n) == [i \in 1..n |-> IF i <= Len(src) THEN src[i] ELSE 0]

\* A variant that copies all of src and its end, as strcpy does.
strncpy_unbounded(m, dst, src, n) == WriteBytes(m, dst, Append(src, 0))

strncpy(m, dst, src, n) == WriteBytes(m, dst, StrncpyBytes(src, n))

\* An access of len bytes at offset a that does not stay inside the disk.
\* fault is the outcome chosen for accesses outside the disk.
Outside(a, len) == a < 0 \/ a + len > DiskBytes

Faults(a, len, fault) == a < 0 \/ (fault /\ Outside(a, len))

----------------------------------------------------------------------------
(* Accessors.  s is the superblock. *)

\* An index that is negative or far past the disk (an int read from bytes
\* that are no index) gives an address where every access faults.
inode_for_index(s, index) ==
  IF index < 0 \/ index >= DiskBytes THEN WildOff
  ELSE s.inode_table_start * BLOCK_SIZE_IN_BYTES + index * INODE_SIZE_IN_BYTES

data_block_for_index(s, index) ==
  (s.data_region_start + index) * BLOCK_SIZE_IN_BYTES

root_inode(s) == inode_for_index(s, s.root_inode)

\* The index of the inode at offset inode.
inode_index(s, inode) ==
  (inode - s.inode_table_start * BLOCK_SIZE_IN_BYTES) \div INODE_SIZE_IN_BYTES

\* &entry[index] for a direntry array at offset entry
EntryAt(entry, index) == entry + index * DIRENTRY_SIZE

EntryName(entry, index) == EntryAt(entry, index) + DIRENTRY_NAME_OFFSET

\* The bytes of an entry that the program writes: inum and 30 bytes of name.
EntryBytes == DIRENTRY_NAME_OFFSET + MAX_DIRECTORY_NAME_LENGTH

----------------------------------------------------------------------------
(* fs_create_disk *)

NameDot == <<DOT>>
NameDotDot == <<DOT, DOT>>

\* A variant that leaves out the entry "..".
init_direntry_datablock_with_dot_only(m, data_block) ==
  LET m1 == WriteInt(m, EntryAt(data_block, 0), 0)
  IN strncpy(m1, EntryName(data_block, 0), NameDot, MAX_DIRECTORY_NAME_LENGTH)

init_direntry_datablock_with_default_directories(m, data_block) ==
  LET m1 == WriteInt(m, EntryAt(data_block, 0), 0)
      m2 == strncpy(m1, EntryName(data_block, 0), NameDot, MAX_DIRECTORY_NAME_LENGTH)
      m3 == WriteInt(m2, EntryAt(data_block, 1), 0)
  IN strncpy(m3, EntryName(data_block, 1), NameDotDot, MAX_DIRECTORY_NAME_LENGTH)

Superblock ==
  [inode_bitmap_block |-> 1,
   data_bitmap_block |-> 2,
   inode_table_start |-> 3,
   data_region_start |-> 3 + INODE_TABLE_IN_BLOCKS,
   root_inode |-> 0]

\* The disk fs_create_disk builds: [sb, ib, db, mem].
CreatedDisk(sh) ==
  LET s == Superblock
      in == inode_for_index(s, 0)
      data_block == data_block_for_index(s, 0)
      m0 == <<>>
      m1 == WriteInt(m0, in + INODE_TYPE_OFFSET, inode_type_directory)
      m2 == WritePtr(m1, in + INODE_BLOCK_OFFSET, data_block)
  IN [sb |-> s,
      ib |-> set_bit(sh, {}, 0),
      db |-> set_bit(sh, {}, 0),
      mem |-> init_direntry_datablock_with_default_directories(m2, data_block)]

----------------------------------------------------------------------------
(* directory_inode *)

\* strcmp(a, b) == 0
StrEq(a, b) == a = b

\* Where the loop of directory_inode stops at entry index i: at a fault, at
\* an entry with no name, or at the entry named directory_name.
directory_stop(m, entry, i, directory_name, fault) ==
  \/ Faults(EntryName(entry, i), 1, fault)
  \/ Rd(m, EntryName(entry, i)) = 0
  \/ StrEq(CString(m, EntryName(entry, i)), directory_name)

\* A variant that goes on to the last entry named directory_name.
directory_scan_to_last(s, m, entry, directory_name, fault) ==
  LET end == CHOOSE i \in 0..Stored(m) :
               /\ Rd(m, EntryName(entry, i)) = 0
               /\ \A j \in 0..(i - 1) : Rd(m, EntryName(entry, j)) # 0
      hits == {i \in 0..(end - 1) : StrEq(CString(m, EntryName(entry, i)), directory_name)}
      hit == CHOOSE i \in hits : \A j \in hits : j <= i
  IN IF entry < 0 THEN [in |-> NULL, segv |-> TRUE]
     ELSE IF hits = {} THEN [in |-> NULL, segv |-> FALSE]
     ELSE [in |-> inode_for_index(s, ReadInt(m, EntryAt(entry, hit))), segv |-> FALSE]

\* The loop of directory_inode: the inode of the first entry named
\* directory_name, NULL at an entry with no name.
directory_scan(s, m, entry, directory_name, fault) ==
  LET entry_index ==
        CHOOSE i \in 0..Stored(m) :
          /\ directory_stop(m, entry, i, directory_name, fault)
          /\ \A j \in 0..(i - 1) : ~directory_stop(m, entry, j, directory_name, fault)
  IN IF Faults(EntryName(entry, entry_index), 1, fault)
       THEN [in |-> NULL, segv |-> TRUE]
     ELSE IF Rd(m, EntryName(entry, entry_index)) = 0
       THEN [in |-> NULL, segv |-> FALSE]
     ELSE [in |-> inode_for_index(s, ReadInt(m, EntryAt(entry, entry_index))),
           segv |-> FALSE]

\* [in: the inode found or NULL, segv: whether the lookup faulted]
directory_inode(s, m, curr_dir_inode, directory_name, fault) ==
  IF Faults(curr_dir_inode, INODE_SIZE_IN_BYTES, fault)
    THEN [in |-> NULL, segv |-> TRUE]
  ELSE IF ReadInt(m, curr_dir_inode + INODE_TYPE_OFFSET) # inode_type_directory
    THEN [in |-> NULL, segv |-> FALSE]
  ELSE directory_scan(s, m, ReadPtr(m, curr_dir_inode + INODE_BLOCK_OFFSET),
                      directory_name, fault)

----------------------------------------------------------------------------
(* create_inode.  A disk state st is [pc, ib, db, mem]; the result adds     *)
(* what the call did: reached (create_inode was entered), inum and dnum    *)
(* (the indices it took, -2 when it took none) and parent (the inode it   *)
(* was given).                                                             *)

NoIndex == -2

Untouched(st) ==
  [pc |-> st.pc, ib |-> st.ib, db |-> st.db, mem |-> st.mem,
   reached |-> FALSE, parent |-> NULL, inum |-> NoIndex, dnum |-> NoIndex]

\* The index of the first entry with an empty name, -1 when the scan faults.
unnamed_stop(m, entry, i, fault) ==
  Faults(EntryName(entry, i), 1, fault) \/ Rd(m, EntryName(entry, i)) = 0

first_unnamed_entry(m, entry, fault) ==
  LET index ==
        CHOOSE i \in 0..Stored(m) :
          /\ unnamed_stop(m, entry, i, fault)
          /\ \A j \in 0..(i - 1) : ~unnamed_stop(m, entry, j, fault)
  IN IF Faults(EntryName(entry, index), 1, fault) THEN -1 ELSE index

create_inode(sh, s, st, parent, name, type, fault) ==
  IF Faults(parent, INODE_SIZE_IN_BYTES, fault)
    THEN [Untouched(st) EXCEPT !.pc = "segv", !.reached = TRUE, !.parent = parent]
  ELSE IF ReadInt(st.mem, parent + INODE_TYPE_OFFSET) # inode_type_directory
    THEN [Untouched(st) EXCEPT !.pc = "aborted", !.reached = TRUE, !.parent = parent]
  ELSE
    LET \* Find a free inode.
        inum == first_clear_bit(sh, st.ib)
        ib1 == set_bit(sh, st.ib, inum)
        \* Find a data block.
        data_block_num == first_clear_bit(sh, st.db)
        db1 == set_bit(sh, st.db, data_block_num)
        data_block == data_block_for_index(s, data_block_num)
        \* Init the new inode.
        inode == inode_for_index(s, inum)
        m1 == WritePtr(st.mem, inode + INODE_BLOCK_OFFSET, data_block)
        m2 == WriteInt(m1, inode + INODE_TYPE_OFFSET, type)
        \* Add reference to directory.
        entry == ReadPtr(m2, parent + INODE_BLOCK_OFFSET)
        index == first_unnamed_entry(m2, entry, fault)
        m3 == strncpy(m2, EntryName(entry, index), name, MAX_DIRECTORY_NAME_LENGTH)
        m4 == WriteInt(m3, EntryAt(entry, index), inum)
        m5 == init_direntry_datablock_with_default_directories(m4, data_block)
        took == [pc |-> st.pc, ib |-> ib1, db |-> db1, mem |-> m2,
                 reached |-> TRUE, parent |-> parent,
                 inum |-> inum, dnum |-> data_block_num]
    IN IF Faults(inode, INODE_SIZE_IN_BYTES, fault)
         THEN [took EXCEPT !.pc = "segv", !.mem = st.mem]
       ELSE IF index < 0 \/ Faults(EntryAt(entry, index), EntryBytes, fault)
         THEN [took EXCEPT !.pc = "segv"]
       ELSE IF type # inode_type_directory
         THEN [took EXCEPT !.mem = m4]
       ELSE IF Faults(data_block, DIRENTRY_SIZE + EntryBytes, fault)
         THEN [took EXCEPT !.pc = "segv", !.mem = m4]
       ELSE [took EXCEPT !.mem = m5]

----------------------------------------------------------------------------
(* create_file, create_dir *)

\* strsep(&string, "/"): the token up to the first '/', and what follows it;
\* more is FALSE when there is no '/', which leaves string NULL.
RECURSIVE SlashAt(_, _)
SlashAt(string, i) ==
  IF i > Len(string) THEN 0
  ELSE IF string[i] = SLASH THEN i
  ELSE SlashAt(string, i + 1)

strsep(string) ==
  LET k == SlashAt(string, 1)
  IN IF k = 0 THEN [token |-> string, rest |-> <<>>, more |-> FALSE]
     ELSE [token |-> SubSeq(string, 1, k - 1),
           rest |-> SubSeq(string, k + 1, Len(string)),
           more |-> TRUE]

\* The while loop of create_file and create_dir.
RECURSIVE walk_path(_, _, _, _, _, _, _)
walk_path(sh, s, st, in, string, type, fault) ==
  LET sep == strsep(string)
      found == directory_inode(s, st.mem, in, sep.token, fault)
  IN IF ~sep.more
       THEN create_inode(sh, s, st, in, sep.token, type, fault)
     ELSE IF found.segv THEN [Untouched(st) EXCEPT !.pc = "segv"]
     ELSE IF found.in = NULL THEN Untouched(st)
     ELSE walk_path(sh, s, st, found.in, sep.rest, type, fault)

\* A variant that takes a path without looking at its first character.
create_file_unchecked(sh, s, st, path, fault) ==
  IF path # <<>>
    THEN walk_path(sh, s, st, root_inode(s), Tail(path), inode_type_file, fault)
    ELSE Untouched(st)

create_file(sh, s, st, path, fault) ==
  IF path # <<>> /\ path[1] = SLASH
    THEN walk_path(sh, s, st, root_inode(s), Tail(path), inode_type_file, fault)
    ELSE Untouched(st)

create_dir(sh, s, st, path, fault) ==
  IF path # <<>> /\ path[1] = SLASH
    THEN walk_path(sh, s, st, root_inode(s), Tail(path), inode_type_directory, fault)
    ELSE Untouched(st)

----------------------------------------------------------------------------
(* print_tree.  The output is the sequence of printed lines, each          *)
(* [level: the number of spaces before the name, name].                    *)

\* Frames of print_inode_recursive the stack has room for.
StackFrames == MaxCalls + MaxTail + 3

IsDotName(name) == name = NameDot \/ name = NameDotDot

RECURSIVE print_inode_recursive(_, _, _, _, _, _)
RECURSIVE print_entries(_, _, _, _, _, _, _)
print_inode_recursive(s, m, name, inode, level, fault) ==
  LET line == <<[level |-> level, name |-> name]>>
      entry == ReadPtr(m, inode + INODE_BLOCK_OFFSET)
      end == first_unnamed_entry(m, entry, fault)
      below == print_entries(s, m, entry, 0, end - 1, level, fault)
  IN IF IsDotName(name) THEN [lines |-> line, segv |-> FALSE]
     ELSE IF Faults(inode, INODE_SIZE_IN_BYTES, fault) THEN [lines |-> line, segv |-> TRUE]
     ELSE IF ReadInt(m, inode + INODE_TYPE_OFFSET) # inode_type_directory
       THEN [lines |-> line, segv |-> FALSE]
     ELSE IF level >= StackFrames THEN [lines |-> line, segv |-> TRUE]
     ELSE IF end < 0 THEN [lines |-> line, segv |-> TRUE]
     ELSE [lines |-> line \o below.lines, segv |-> below.segv]

\* The while loop of print_inode_recursive over the entries lo..hi, all of
\* them named: each is printed in turn, up to the one whose printing faults.
\* The range is halved so that the evaluation stays shallow.
print_entries(s, m, entry, lo, hi, level, fault) ==
  LET mid == (lo + hi) \div 2
      left == print_entries(s, m, entry, lo, mid, level, fault)
      right == print_entries(s, m, entry, mid + 1, hi, level, fault)
  IN IF lo > hi THEN [lines |-> <<>>, segv |-> FALSE]
     ELSE IF lo = hi
       THEN print_inode_recursive(s, m, CString(m, EntryName(entry, lo)),
              inode_for_index(s, ReadInt(m, EntryAt(entry, lo))), level + 1, fault)
     ELSE IF left.segv THEN left
     ELSE [lines |-> left.lines \o right.lines, segv |-> right.segv]

NameSlash == <<SLASH>>

\* A variant that starts one level in.
print_tree_indented(s, m, fault) ==
  print_inode_recursive(s, m, NameSlash, root_inode(s), 1, fault)

print_tree(s, m, fault) == print_inode_recursive(s, m, NameSlash, root_inode(s), 0, fault)

----------------------------------------------------------------------------
(* The paths the calls are made with. *)

NameF == <<102>>
NameD == <<100>>
NameG == <<103>>
NameM == <<109>>
\* A name of two characters more than a directory entry holds, all different.
LongName == [i \in 1..(MAX_DIRECTORY_NAME_LENGTH + 2) |-> 64 + i]

RECURSIVE Path(_)
Path(names) == IF names = <<>> THEN <<>> ELSE <<SLASH>> \o Head(names) \o Path(Tail(names))

Paths ==
  {Path(<<NameF>>), Path(<<NameD>>), Path(<<NameD, NameG>>), Path(<<NameD, NameD>>),
   Path(<<NameD, NameD, NameG>>), Path(<<NameF, NameG>>), Path(<<NameM, NameG>>),
   Path(<<NameF, NameM, NameG>>), Path(<<LongName>>), NameG}

FillerPath == Path(<<NameF>>)

TailPaths == {Path(<<NameD>>), Path(<<NameD, NameG>>)}

\* Paths with an empty last component, and paths through a long name.
EdgePaths ==
  {<<SLASH>>, Path(<<NameD>>), Append(Path(<<NameD>>), SLASH),
   Path(<<LongName>>), Path(<<LongName, NameF>>)}

\* Paths that make entries of the same name, and a path through one.
LookupPaths ==
  {Path(<<NameD>>), Path(<<NameD, NameG>>), Path(<<NameF>>), Path(<<LongName>>)}

\* The last component of a path, the name create_inode is given.
RECURSIVE FinalName(_)
FinalName(string) ==
  IF strsep(string).more THEN FinalName(strsep(string).rest) ELSE string

----------------------------------------------------------------------------
(* The state machine. *)

NoCall ==
  [op |-> "none", path |-> <<>>, reached |-> FALSE, parent |-> NULL,
   existed |-> FALSE, free |-> FALSE, inum |-> NoIndex, dnum |-> NoIndex]

Init ==
  /\ pc = "boot"
  /\ shift \in ShiftOutcomes
  /\ sb = [inode_bitmap_block |-> 0, data_bitmap_block |-> 0, inode_table_start |-> 0,
           data_region_start |-> 0, root_inode |-> 0]
  /\ inode_bitmap = {}
  /\ data_bitmap = {}
  /\ mem = <<>>
  /\ out = <<>>
  /\ created = <<>>
  /\ last = NoCall
  /\ calls = 0
  /\ tail = 0

FsCreateDisk ==
  /\ pc = "boot"
  /\ pc' = "ready"
  /\ sb' = CreatedDisk(shift).sb
  /\ inode_bitmap' = CreatedDisk(shift).ib
  /\ data_bitmap' = CreatedDisk(shift).db
  /\ mem' = CreatedDisk(shift).mem
  /\ created' = <<[inum |-> 0, dnum |-> 0, parent |-> NoIndex, name |-> NameSlash,
                   type |-> inode_type_directory]>>
  /\ last' = [NoCall EXCEPT !.op = "fs_create_disk"]
  /\ UNCHANGED <<shift, out, calls, tail>>

State == [pc |-> pc, ib |-> inode_bitmap, db |-> data_bitmap, mem |-> mem]

\* The state after a call of op with path that ended as r.  created lists
\* the inodes made so far, the root first: the indices each took, the index
\* of its parent's inode, the name it was made with and its type.  last
\* describes the last create_file or create_dir call: existed tells whether
\* the parent held the name before, free whether the bits of the indices
\* taken were clear before.
Call(r, op, path) ==
  /\ pc' = r.pc
  /\ inode_bitmap' = r.ib
  /\ data_bitmap' = r.db
  /\ mem' = r.mem
  /\ out' = <<>>
  /\ created' = IF r.inum # NoIndex
                  THEN Append(created,
                         [inum |-> r.inum, dnum |-> r.dnum,
                          parent |-> inode_index(sb, r.parent),
                          name |-> FinalName(path),
                          type |-> IF op = "create_dir" THEN inode_type_directory
                                   ELSE inode_type_file])
                  ELSE created
  /\ last' = [op |-> op, path |-> path, reached |-> r.reached, parent |-> r.parent,
              existed |-> r.reached /\
                 directory_inode(sb, mem, r.parent, FinalName(path), FALSE).in # NULL,
              free |-> r.inum # NoIndex /\ r.inum \notin inode_bitmap
                       /\ r.dnum \notin data_bitmap,
              inum |-> r.inum, dnum |-> r.dnum]
  /\ calls' = calls + 1
  /\ UNCHANGED <<shift, sb>>

\* An access outside the disk either faults or goes through.  A call that
\* does not end in "segv" when such accesses fault has made none, and ends
\* the same way when they go through.
DoCreateFile(path) ==
  /\ pc = "ready"
  /\ \E r \in {create_file(shift, sb, State, path, TRUE)} :
       \/ Call(r, "create_file", path)
       \/ /\ r.pc = "segv"
          /\ \E q \in {create_file(shift, sb, State, path, FALSE)} :
               Call(q, "create_file", path)

DoCreateDir(path) ==
  /\ pc = "ready"
  /\ \E r \in {create_dir(shift, sb, State, path, TRUE)} :
       \/ Call(r, "create_dir", path)
       \/ /\ r.pc = "segv"
          /\ \E q \in {create_dir(shift, sb, State, path, FALSE)} :
               Call(q, "create_dir", path)

\* out is what the last call printed, if that call was print_tree.
Printed(r) ==
  /\ out' = r.lines
  /\ pc' = IF r.segv THEN "segv" ELSE pc
  /\ UNCHANGED <<shift, sb, inode_bitmap, data_bitmap, mem, created, last, calls>>

DoPrintTree ==
  /\ pc = "ready"
  /\ \E r \in {print_tree(sb, mem, TRUE)} :
       \/ Printed(r)
       \/ r.segv /\ \E q \in {print_tree(sb, mem, FALSE)} : Printed(q)

\* Spec: any MaxCalls calls with the paths of Paths.
CreateFile(path) == calls < MaxCalls /\ DoCreateFile(path) /\ tail' = tail

CreateDir(path) == calls < MaxCalls /\ DoCreateDir(path) /\ tail' = tail

PrintTree == DoPrintTree /\ tail' = tail

Next ==
  \/ FsCreateDisk
  \/ \E path \in Paths : CreateFile(path)
  \/ \E path \in Paths : CreateDir(path)
  \/ PrintTree

Spec == Init /\ [][Next]_vars

\* SpecFill: up to MaxFill files made in the root, then MaxTail calls.
FillFile == tail = 0 /\ calls < MaxFill /\ DoCreateFile(FillerPath) /\ tail' = tail

TailCreateFile(path) == tail < MaxTail /\ DoCreateFile(path) /\ tail' = tail + 1

TailCreateDir(path) == tail < MaxTail /\ DoCreateDir(path) /\ tail' = tail + 1

TailPrintTree == tail < MaxTail /\ DoPrintTree /\ tail' = tail + 1

NextFill ==
  \/ FsCreateDisk
  \/ FillFile
  \/ \E path \in TailPaths : TailCreateFile(path)
  \/ \E path \in TailPaths : TailCreateDir(path)
  \/ TailPrintTree

SpecFill == Init /\ [][NextFill]_vars

\* SpecEdge: any MaxCalls calls with the paths of EdgePaths.
EdgeCreateFile(path) == calls < MaxCalls /\ DoCreateFile(path) /\ tail' = tail

EdgeCreateDir(path) == calls < MaxCalls /\ DoCreateDir(path) /\ tail' = tail

EdgePrintTree == DoPrintTree /\ tail' = tail

NextEdge ==
  \/ FsCreateDisk
  \/ \E path \in EdgePaths : EdgeCreateFile(path)
  \/ \E path \in EdgePaths : EdgeCreateDir(path)
  \/ EdgePrintTree

SpecEdge == Init /\ [][NextEdge]_vars

\* SpecLookup: any MaxCalls creations with the paths of LookupPaths.
LookupCreateFile(path) == calls < MaxCalls /\ DoCreateFile(path) /\ tail' = tail

LookupCreateDir(path) == calls < MaxCalls /\ DoCreateDir(path) /\ tail' = tail

NextLookup ==
  \/ FsCreateDisk
  \/ \E path \in LookupPaths : LookupCreateFile(path)
  \/ \E path \in LookupPaths : LookupCreateDir(path)

SpecLookup == Init /\ [][NextLookup]_vars

----------------------------------------------------------------------------
(* What the disk holds, as the properties below read it. *)

InodeType(m, inode) == ReadInt(m, inode + INODE_TYPE_OFFSET)

InodeBlock(m, inode) == ReadPtr(m, inode + INODE_BLOCK_OFFSET)

\* The named entries of the directory block at entry, in order, up to the
\* first entry with an empty name.
Entries(m, entry) ==
  [i \in 1..first_unnamed_entry(m, entry, FALSE) |->
     [inum |-> ReadInt(m, EntryAt(entry, i - 1)),
      name |-> CString(m, EntryName(entry, i - 1))]]

EntryNames(m, entry) ==
  [i \in 1..first_unnamed_entry(m, entry, FALSE) |-> CString(m, EntryName(entry, i - 1))]

\* The inodes the entries named name of the directory at inode lead to.
Named(s, m, inode, name) ==
  IF inode < 0 THEN {}
  ELSE LET dir == Entries(m, InodeBlock(m, inode))
       IN {inode_for_index(s, dir[i].inum) : i \in {j \in DOMAIN dir : dir[j].name = name}}

\* The inode the first entry named name of the directory at inode leads to.
Child(s, m, inode, name) ==
  LET dir == Entries(m, InodeBlock(m, inode))
      first == CHOOSE i \in DOMAIN dir :
                 dir[i].name = name /\ \A j \in 1..(i - 1) : dir[j].name # name
  IN inode_for_index(s, dir[first].inum)

IsCreate(op) == op \in {"create_file", "create_dir"}

----------------------------------------------------------------------------
(* Root invariant *)

\* C1: immediately after fs_create_disk, inode 0 is the root, its type is
\* directory, its data block is data block 0, that block holds exactly the
\* two named entries "." and "..", in this order, followed by an entry with
\* an empty name, and exactly bit 0 is set in each of the two bitmaps.
RootInvariant ==
  last.op = "fs_create_disk" =>
    /\ sb.root_inode = 0
    /\ root_inode(sb) = inode_for_index(sb, 0)
    /\ InodeType(mem, inode_for_index(sb, 0)) = inode_type_directory
    /\ InodeBlock(mem, inode_for_index(sb, 0)) = data_block_for_index(sb, 0)
    /\ EntryNames(mem, data_block_for_index(sb, 0)) = <<NameDot, NameDotDot>>
    /\ Rd(mem, EntryName(data_block_for_index(sb, 0), 2)) = 0
    /\ inode_bitmap = {0}
    /\ data_bitmap = {0}

\* fs_create_disk has returned and nothing was created since.
RootCreated == pc = "ready" /\ last.op = "fs_create_disk" /\ Len(created) = 1

----------------------------------------------------------------------------
(* Allocation *)

\* C2: each call that reaches create_inode and takes indices takes an inode
\* index and a data block index whose bits were clear just before the call,
\* and no two inodes created so far, the root included, have the same inode
\* index or the same data block.
AllocationUnique ==
  /\ (IsCreate(last.op) /\ last.inum # NoIndex) => last.free
  /\ \A i \in 1..Len(created) : \A j \in (i + 1)..Len(created) :
       created[i].inum # created[j].inum /\ created[i].dnum # created[j].dnum

\* The inodes 1..k of created took the indices 0..k-1, in this order.
InOrder(k) ==
  \A j \in 1..k : created[j].inum = j - 1 /\ created[j].dnum = j - 1

\* C3: when exactly the bits 0..k-1 of a bitmap have been set through
\* set_bit, first_clear_bit returns k and the next allocation of create_inode
\* takes index k, for every k below the capacity of the bitmap.
FirstFit ==
  \A k \in 1..Len(created) :
    (k < BitmapBits /\ InOrder(k)) =>
      IF k < Len(created)
        THEN created[k + 1].inum = k /\ created[k + 1].dnum = k
        ELSE /\ first_clear_bit(shift, inode_bitmap) = k
             /\ first_clear_bit(shift, data_bitmap) = k

----------------------------------------------------------------------------
(* Paths *)

\* The number of components of an absolute path.
RECURSIVE Depth(_)
Depth(string) ==
  IF string = <<>> THEN 0
  ELSE (IF Head(string) = SLASH THEN 1 ELSE 0) + Depth(Tail(string))

\* Line b of the listing is one level below line a, inside what a holds.
Below(lines, a, b) ==
  /\ a < b
  /\ lines[b].level = lines[a].level + 1
  /\ \A c \in (a + 1)..b : lines[c].level > lines[a].level

\* A name a path component may be: 1..30 characters, no '/', not "." or "..".
PlainName(name) ==
  /\ Len(name) \in 1..MAX_DIRECTORY_NAME_LENGTH
  /\ \A i \in 1..Len(name) : name[i] # SLASH
  /\ ~IsDotName(name)

\* After create_dir(p/d) and create_file(p/d/f): the directory at parent has
\* an entry d whose inode is a directory, which has an entry f whose inode is
\* a file, and the listing shows f one level below d, d one level below p.
Nested(s, m, parent, depthOfD, d, f) ==
  /\ \E din \in Named(s, m, parent, d) :
       /\ din >= 0
       /\ InodeType(m, din) = inode_type_directory
       /\ \E fin \in Named(s, m, din, f) :
            fin >= 0 /\ InodeType(m, fin) = inode_type_file
  /\ \A fault \in BOOLEAN :
       LET lines == print_tree(s, m, fault).lines
       IN \E a \in 1..Len(lines) : \E b \in (a + 1)..Len(lines) :
            /\ lines[a] = [level |-> depthOfD, name |-> d]
            /\ lines[b] = [level |-> depthOfD + 1, name |-> f]
            /\ Below(lines, a, b)
            /\ \E a0 \in 1..(a - 1) : Below(lines, a0, a)

\* C4: in any reachable state, for a directory reached by the absolute path
\* p and plain names d and f, d not an entry of that directory: after
\* create_dir(p/d) and then create_file(p/d/f) the directory at p has an
\* entry d whose inode is a directory, that directory has an entry f whose
\* inode is a file, and print_tree lists f one level below d and d one level
\* below the directory at p.
PathRoundTrip ==
  [][(/\ pc = "ready"
      /\ last.op = "create_dir" /\ last.reached /\ ~last.existed
      /\ PlainName(FinalName(last.path))
      /\ calls' = calls + 1
      /\ last'.op = "create_file"
      /\ PlainName(FinalName(last'.path))
      /\ last'.path = last.path \o <<SLASH>> \o FinalName(last'.path))
     => Nested(sb', mem', last.parent, Depth(last.path),
               FinalName(last.path), FinalName(last'.path))]_vars

----------------------------------------------------------------------------
(* Exhaustion *)

DataBlocks == 0..(DATA_REGION_IN_BLOCKS - 1)

\* C5: once all 56 blocks of the data region are allocated, every further
\* create_file or create_dir call allocates no inode and no data block and
\* leaves the bitmaps, the inode table and every directory unchanged; and in
\* no reachable state is a data block index of 56 or more allocated or
\* addressed.
Exhaustion ==
  [][/\ (calls' = calls + 1 /\ DataBlocks \subseteq data_bitmap)
          => (disk' = disk /\ created' = created)
     /\ data_bitmap' \subseteq DataBlocks
     /\ \A i \in 1..Len(created') : created'[i].dnum \in DataBlocks]_vars

----------------------------------------------------------------------------
(* Paths that lead nowhere *)

HasEntry(s, m, inode, name) == Named(s, m, inode, name) # {}

\* Some component of string before the last is not the name of an entry of
\* the directory reached so far.
RECURSIVE MissingComponent(_, _, _, _)
MissingComponent(s, m, inode, string) ==
  LET sep == strsep(string)
  IN /\ sep.more
     /\ \/ ~HasEntry(s, m, inode, sep.token)
        \/ MissingComponent(s, m, Child(s, m, inode, sep.token), sep.rest)

BadPath(s, m, path) ==
  \/ path = <<>>
  \/ path[1] # SLASH
  \/ MissingComponent(s, m, root_inode(s), Tail(path))

\* C6: in any reachable state a create_file or create_dir call whose path
\* does not begin with '/', or in which some component before the last is
\* not the name of an entry of the directory reached so far, changes
\* nothing: the bitmaps, the inodes and the directory blocks are the same
\* before and after the call.
BadPathUntouched ==
  [][(calls' = calls + 1 /\ IsCreate(last'.op) /\ BadPath(sb, mem, last'.path))
     => disk' = disk]_vars

\* The last call had a bad path, on a disk that holds more than the root.
BadPathCalled ==
  /\ IsCreate(last.op)
  /\ BadPath(sb, mem, last.path)
  /\ Len(created) > 1

\* Some component of string before the last leads to a file inode.
RECURSIVE FileOnPath(_, _, _, _)
FileOnPath(s, m, inode, string) ==
  LET sep == strsep(string)
      next == Child(s, m, inode, sep.token)
  IN /\ sep.more
     /\ HasEntry(s, m, inode, sep.token)
     /\ next >= 0
     /\ \/ InodeType(m, next) = inode_type_file
        \/ FileOnPath(s, m, next, sep.rest)

\* C7: in any reachable state, for an absolute path in which some component
\* before the last, the one just before the last included, leads to a file
\* inode, create_file and create_dir return normally and change no bitmap,
\* inode or entry; and no call made through create_file or create_dir
\* violates the assertion of create_inode.
FileOnPathSilent ==
  [][/\ (/\ calls' = calls + 1
         /\ IsCreate(last'.op)
         /\ last'.path # <<>> /\ last'.path[1] = SLASH
         /\ FileOnPath(sb, mem, root_inode(sb), Tail(last'.path)))
          => (disk' = disk /\ pc' = pc)
     /\ pc' # "aborted"]_vars

----------------------------------------------------------------------------
(* Names *)

FirstChars(name, n) == SubSeq(name, 1, IF Len(name) < n THEN Len(name) ELSE n)

StoredName(name) == FirstChars(name, MAX_DIRECTORY_NAME_LENGTH)

\* C8: for a last path component of more than 30 characters create_file and
\* create_dir append an entry whose stored name is the first 30 characters
\* of the component, ended after them, the same on every repeated call; a
\* component of at most 30 characters is stored as it is.
Truncation ==
  /\ \A k \in 2..Len(created) :
       LET dir == Entries(mem, InodeBlock(mem, inode_for_index(sb, created[k].parent)))
       IN \E i \in DOMAIN dir :
            /\ dir[i].inum = created[k].inum
            /\ dir[i].name = StoredName(created[k].name)
  /\ (IsCreate(last.op) /\ last.inum # NoIndex) =>
       LET entry == InodeBlock(mem, last.parent)
           end == first_unnamed_entry(mem, entry, FALSE)
       IN /\ end >= 1
          /\ ReadInt(mem, EntryAt(entry, end - 1)) = last.inum
          /\ CString(mem, EntryName(entry, end - 1)) = StoredName(FinalName(last.path))
          /\ strlen(mem, EntryName(entry, end - 1)) = Len(StoredName(FinalName(last.path)))

\* The long name was used twice, the second time by the last call.
LongNameTwice ==
  /\ Len(created) >= 3
  /\ created[Len(created)].name = LongName
  /\ created[Len(created) - 1].name = LongName
  /\ IsCreate(last.op) /\ last.inum = created[Len(created)].inum
  /\ Len(LongName) > MAX_DIRECTORY_NAME_LENGTH

----------------------------------------------------------------------------
(* The listing *)

\* What the listing is to be, from what was created and in which order: the
\* line of made[k] at level, and below a directory its "." and "..", then
\* what was created in it, in the order of creation.
RECURSIVE TreeLines(_, _, _)
RECURSIVE ChildLines(_, _, _, _)
TreeLines(made, k, level) ==
  LET line == <<[level |-> level, name |-> StoredName(made[k].name)]>>
      dots == <<[level |-> level + 1, name |-> NameDot],
                [level |-> level + 1, name |-> NameDotDot]>>
  IN IF made[k].type = inode_type_directory
       THEN line \o dots \o ChildLines(made, k, k + 1, level + 1)
       ELSE line

ChildLines(made, k, j, level) ==
  IF j > Len(made) THEN <<>>
  ELSE (IF made[j].parent = made[k].inum THEN TreeLines(made, j, level) ELSE <<>>)
       \o ChildLines(made, k, j + 1, level)

----------------------------------------------------------------------------
(* Directory capacity *)

\* The block at entry has no room for one more entry and the entry with an
\* empty name after it.
NoRoom(m, entry) ==
  (first_unnamed_entry(m, entry, FALSE) + 2) * DIRENTRY_SIZE > BLOCK_SIZE_IN_BYTES

\* The entries of every directory and the entry with an empty name after
\* them lie in the block of the directory.
EntriesInside ==
  \A k \in 1..Len(created) :
    created[k].type = inode_type_directory =>
      (first_unnamed_entry(mem, data_block_for_index(sb, created[k].dnum), FALSE) + 1)
         * DIRENTRY_SIZE <= BLOCK_SIZE_IN_BYTES

\* C10: a create_file or create_dir call whose parent directory has no room
\* in its block for another entry and the empty-name entry after it writes
\* nothing; and in every reachable state the entries of a directory and the
\* empty-name entry that scans stop at lie inside the 4096 bytes of the
\* block of that directory.
DirectoryCapacity ==
  [][/\ (/\ calls' = calls + 1
         /\ IsCreate(last'.op) /\ last'.reached
         /\ last'.parent >= 0
         /\ InodeType(mem, last'.parent) = inode_type_directory
         /\ NoRoom(mem, InodeBlock(mem, last'.parent)))
          => disk' = disk
     /\ EntriesInside']_vars

----------------------------------------------------------------------------
(* Bitmaps and references *)

\* The indices of the allocated inodes of type directory.
Directories(s, m, ib) ==
  {i \in ib : /\ inode_for_index(s, i) >= 0
              /\ InodeType(m, inode_for_index(s, i)) = inode_type_directory}

\* The named entries of the directory with inode index d after its first two.
LaterEntries(s, m, d) ==
  LET dir == Entries(m, InodeBlock(m, inode_for_index(s, d)))
  IN {<<d, p, dir[p].inum>> : p \in {q \in DOMAIN dir : q > 2}}

\* <<directory, position, inum>> of every named entry that is not one of the
\* two default entries of its directory.
References(s, m, ib) == UNION {LaterEntries(s, m, d) : d \in Directories(s, m, ib)}

\* The allocated inodes whose block is data block j.
Owners(s, m, ib, j) ==
  {i \in ib : /\ inode_for_index(s, i) >= 0
              /\ InodeBlock(m, inode_for_index(s, i)) = data_block_for_index(s, j)}

\* The index of the data block at offset block.
data_block_index(s, block) ==
  (block - s.data_region_start * BLOCK_SIZE_IN_BYTES) \div BLOCK_SIZE_IN_BYTES

\* C11: after any create_file and create_dir calls with absolute paths, those
\* with an empty last component included, bit i of the inode bitmap is set,
\* for an inode i other than the root, if and only if exactly one named
\* entry other than the default "." and ".." has inum i; and bit j of the
\* data bitmap is set if and only if exactly one allocated inode has data
\* block j as its block.
BitmapReference ==
  LET refs == References(sb, mem, inode_bitmap)
      blocks == {data_block_index(sb, InodeBlock(mem, inode_for_index(sb, i))) :
                   i \in {k \in inode_bitmap : inode_for_index(sb, k) >= 0}}
  IN /\ \A i \in (inode_bitmap \cup {r[3] : r \in refs}) \ {0} :
          (i \in inode_bitmap) <=> (Cardinality({r \in refs : r[3] = i}) = 1)
     /\ \A j \in data_bitmap \cup blocks :
          (j \in data_bitmap) <=> (Cardinality(Owners(sb, mem, inode_bitmap, j)) = 1)

----------------------------------------------------------------------------
(* Names in a directory *)

\* C12: in every reachable state, after any create_file and create_dir
\* calls, repeated ones and ones with the names "." and ".." included, no
\* directory holds two entries with the same name.
SiblingNamesUnique ==
  \A d \in Directories(sb, mem, inode_bitmap) :
    LET dir == Entries(mem, InodeBlock(mem, inode_for_index(sb, d)))
    IN \A p, q \in DOMAIN dir : p # q => dir[p].name # dir[q].name

\* The first two entries of the directory at inode are (".", 0), ("..", 0),
\* and both names lead from it to the root.
DefaultEntries(s, m, inode) ==
  LET entry == InodeBlock(m, inode)
  IN /\ entry >= 0
     /\ ReadInt(m, EntryAt(entry, 0)) = 0
     /\ CString(m, EntryName(entry, 0)) = NameDot
     /\ ReadInt(m, EntryAt(entry, 1)) = 0
     /\ CString(m, EntryName(entry, 1)) = NameDotDot
     /\ directory_inode(s, m, inode, NameDot, FALSE).in = root_inode(s)
     /\ directory_inode(s, m, inode, NameDotDot, FALSE).in = root_inode(s)

\* C13: in every reachable state every inode of type directory, the root and
\* every directory made by create_dir, has (".", 0) as entry 0 and
\* ("..", 0) as entry 1 of its block, no later operation changes them, and
\* so a path component "." or ".." leads to the root from any directory.
DefaultEntriesKept ==
  \A k \in 1..Len(created) :
    (/\ created[k].type = inode_type_directory
     /\ inode_for_index(sb, created[k].inum) >= 0
     /\ InodeType(mem, inode_for_index(sb, created[k].inum)) = inode_type_directory
     /\ (k = Len(created) => pc = "ready"))
      => DefaultEntries(sb, mem, inode_for_index(sb, created[k].inum))

----------------------------------------------------------------------------
(* The frame of a creation *)

\* The bytes a creation may write: type and block of the new inode, the
\* first slot with an empty name of the parent, and for a directory the
\* first two entries of the new block.
CreationBytes(s, m, parent, inum, dnum, type) ==
  LET inode == inode_for_index(s, inum)
      entry == InodeBlock(m, parent)
      slot == EntryAt(entry, first_unnamed_entry(m, entry, FALSE))
      block == data_block_for_index(s, dnum)
  IN (inode + INODE_TYPE_OFFSET)..(inode + INODE_TYPE_OFFSET + 3)
       \cup (inode + INODE_BLOCK_OFFSET)..(inode + INODE_BLOCK_OFFSET + 7)
       \cup slot..(slot + DIRENTRY_SIZE - 1)
       \cup (IF type = inode_type_directory
               THEN block..(block + 2 * DIRENTRY_SIZE - 1) ELSE {})

\* m2 holds every named entry of every directory of m1 at its position, and
\* every allocated inode of m1 with its type and block.
Kept(s, ib, m1, m2) ==
  /\ \A i \in {k \in ib : inode_for_index(s, k) >= 0} :
       /\ InodeType(m2, inode_for_index(s, i)) = InodeType(m1, inode_for_index(s, i))
       /\ InodeBlock(m2, inode_for_index(s, i)) = InodeBlock(m1, inode_for_index(s, i))
  /\ \A d \in Directories(s, m1, ib) :
       LET before == Entries(m1, InodeBlock(m1, inode_for_index(s, d)))
           after == Entries(m2, InodeBlock(m1, inode_for_index(s, d)))
       IN \A p \in DOMAIN before : p \in DOMAIN after /\ after[p] = before[p]

\* C14: a create_file or create_dir call that reaches create_inode with a
\* name that is not empty changes only one clear bit of the inode bitmap,
\* one clear bit of the data bitmap, the type and block of the new inode,
\* the first empty-name slot of the parent, which becomes (inum, name), and
\* for create_dir the first two entries of the new block; every named entry
\* keeps its position, name and inum and every allocated inode its type and
\* block.
CreationFrame ==
  [][(/\ calls' = calls + 1
      /\ IsCreate(last'.op) /\ last'.reached /\ last'.inum # NoIndex
      /\ pc' = "ready"
      /\ FinalName(last'.path) # <<>>)
     => LET new == created'[Len(created')]
            entry == InodeBlock(mem, last'.parent)
            slot == first_unnamed_entry(mem, entry, FALSE)
        IN /\ new.inum \notin inode_bitmap
           /\ inode_bitmap' = inode_bitmap \cup {new.inum}
           /\ new.dnum \notin data_bitmap
           /\ data_bitmap' = data_bitmap \cup {new.dnum}
           /\ sb' = sb
           /\ \A a \in (DOMAIN mem \cup DOMAIN mem')
                         \ CreationBytes(sb, mem, last'.parent, new.inum, new.dnum, new.type) :
                Rd(mem', a) = Rd(mem, a)
           /\ ReadInt(mem', EntryAt(entry, slot)) = new.inum
           /\ CString(mem', EntryName(entry, slot)) = StoredName(new.name)
           /\ Kept(sb, inode_bitmap, mem, mem')]_vars

----------------------------------------------------------------------------
(* Lookup *)

\* The names looked up: names in use, a name in another case, the empty
\* name, the long name and what is stored of it.
QueryNames ==
  {NameF, NameD, NameG, NameM, <<68>>, <<>>, NameDot, NameDotDot,
   LongName, StoredName(LongName)}

\* The creations in the directory with inode index i under the stored name
\* name, as positions in created.
MadeAs(i, name) ==
  {k \in 2..Len(created) :
     /\ created[k].parent = i
     /\ name # <<>>
     /\ StoredName(created[k].name) = name}

\* What a lookup of name in the inode with index i is to return: NULL in a
\* file, the root for "." and "..", else the inode made first under name.
FirstMade(i, name) ==
  IF InodeType(mem, inode_for_index(sb, i)) # inode_type_directory THEN NULL
  ELSE IF IsDotName(name) THEN root_inode(sb)
  ELSE IF MadeAs(i, name) = {} THEN NULL
  ELSE inode_for_index(sb,
         created[CHOOSE k \in MadeAs(i, name) : \A j \in MadeAs(i, name) : k <= j].inum)

\* The first component of an absolute path.
FirstName(path) == strsep(Tail(path)).token

----------------------------------------------------------------------------
(* Termination of print_tree *)

\* Every named entry of a directory other than "." and ".." leads to an
\* inode with a higher index than that of the directory: first fit hands
\* out the indices in rising order, so to one allocated later.
PointsForward ==
  \A r \in References(sb, mem, inode_bitmap) :
    LET dir == Entries(mem, InodeBlock(mem, inode_for_index(sb, r[1])))
    IN IsDotName(dir[r[2]].name) \/ r[3] > r[1]

\* C16: in every reachable state print_tree returns, having visited the
\* named entries it reaches from the root through entries other than "."
\* and ".." once each, because these entries never form a cycle: each leads
\* to an inode allocated after the inode of its directory.
PrintTreeReturns ==
  /\ PointsForward
  /\ out # <<>> => pc # "segv"

----------------------------------------------------------------------------
(* Long names *)

\* C17: for a name n of more than 30 characters that the root does not
\* hold, after create_dir("/" n) a create_file("/" n "/f") with the same n
\* finds the directory just created under its first component and adds f
\* as an entry of that directory.
LongNameRoundTrip ==
  [][(/\ pc = "ready"
      /\ last.op = "create_dir" /\ last.reached /\ last.inum # NoIndex
      /\ Depth(last.path) = 1
      /\ Len(FinalName(last.path)) > MAX_DIRECTORY_NAME_LENGTH
      /\ Cardinality(MadeAs(0, StoredName(FinalName(last.path)))) = 1
      /\ calls' = calls + 1
      /\ last'.op = "create_file"
      /\ PlainName(FinalName(last'.path))
      /\ last'.path = last.path \o <<SLASH>> \o FinalName(last'.path))
     => /\ last'.reached
        /\ last'.parent = inode_for_index(sb, last.inum)
        /\ HasEntry(sb', mem', inode_for_index(sb, last.inum), FinalName(last'.path))]_vars

----------------------------------------------------------------------------
(* Allocation over time *)

\* The indices of the inodes created so far.
Made == {created[k].inum : k \in 1..Len(created)}

\* C18: after fs_create_disk no set bit of the inode bitmap or of the data
\* bitmap is ever cleared, no allocated inode ever changes its type or its
\* block, and the fields of the superblock stay 1, 2, 3, 8 and 0.
AllocationMonotonic ==
  [][pc # "boot" =>
       /\ inode_bitmap \subseteq inode_bitmap'
       /\ data_bitmap \subseteq data_bitmap'
       /\ \A i \in {k \in Made : inode_for_index(sb, k) >= 0} :
            /\ InodeType(mem', inode_for_index(sb, i)) = InodeType(mem, inode_for_index(sb, i))
            /\ InodeBlock(mem', inode_for_index(sb, i)) = InodeBlock(mem, inode_for_index(sb, i))
       /\ sb' = sb
       /\ sb = [inode_bitmap_block |-> 1, data_bitmap_block |-> 2, inode_table_start |-> 3,
                data_region_start |-> 8, root_inode |-> 0]]_vars

\* C19: in every reachable state the two bitmaps have the same bits set,
\* the inode with index i has data block i as its block, and each creation,
\* of a file or of a directory, took one inode index and one data block
\* index, so each bitmap has as many bits set as 1 plus the number of calls
\* that reached create_inode and returned from it.
Lockstep ==
  pc = "ready" =>
    /\ inode_bitmap = data_bitmap
    /\ \A k \in 1..Len(created) :
         /\ created[k].dnum = created[k].inum
         /\ inode_for_index(sb, created[k].inum) >= 0
         /\ InodeBlock(mem, inode_for_index(sb, created[k].inum))
              = data_block_for_index(sb, created[k].inum)
    /\ Cardinality(inode_bitmap) = Len(created)
    /\ Cardinality(data_bitmap) = Len(created)

====
